---- MODULE Spec2Model ----
(***************************************************************************)
(* pa-estuary: the main process polls the S3 'pending' folder, turns each  *)
(* new file into a TaskMessage on the task queue, and a pool of worker     *)
(* processes claims the messages, runs the task and reports a              *)
(* StatusMessage on the status queue.                                      *)
(*                                                                         *)
(* Modelled from main.py (Main), worker.py (Worker), task.py (TaskMessage, *)
(* TestTask, KillSelfTask, ImportTask), s3.py (S3Helper) and config.py.    *)
(***************************************************************************)
EXTENDS Integers, Sequences, FiniteSets, TLC

(***************************************************************************)
(* Bounds of the model.                                                    *)
(***************************************************************************)
\* number of worker processes (AppConfig.worker_count is a configuration value)
MaxWorkers == 2
\* LastModified values are 1..MaxTime; MinTime stands for datetime(1,1,1)
MaxTime == 2
\* TaskMessage.next_id is capped: at most MaxTasks messages are created
MaxTasks == 2
\* at most MaxUploads files are put into the pending folder
MaxUploads == 2
\* at most MaxRecords log records are emitted by the workers
MaxRecords == 4

Workers == 1..MaxWorkers
Times == 1..MaxTime
TaskIds == 1..MaxTasks

(***************************************************************************)
(* config.py                                                               *)
(***************************************************************************)
\* main.py:78  datetime.datetime(1, 1, 1, ...) : 'negative infinity'
MinTime == 0
\* s3.py:82  the page size of list_objects
max_keys == 1000

(***************************************************************************)
(* S3 object keys.  A key is kept as the result of the two splits _parse   *)
(* performs on it: 'dirs' and 'file' are the '/'-separated elements after  *)
(* the root prefix, and 'file' is the file name split at '_'.              *)
(***************************************************************************)
\* pag_estuary/pending/clientA/test1_20170101.csv
KeyGood == [dirs |-> <<"pending", "clientA">>, file |-> <<"test1", "20170101.csv">>]
\* pag_estuary/pending/clientA/xyz_20170101.csv : file type outside the list
KeyBadType == [dirs |-> <<"pending", "clientA">>, file |-> <<"xyz", "20170101.csv">>]

\* the keys of the pending folder, in the (lexicographic) order S3 lists them
KeyOrder == <<KeyGood, KeyBadType>>
Keys == {KeyOrder[i] : i \in 1..Len(KeyOrder)}

Range(s) == {s[i] : i \in 1..Len(s)}

\* an object that is not in the bucket
Absent == [Size |-> 0, LastModified |-> MinTime, present |-> FALSE]
\* the metadata S3 reports for an object (boto3 'Contents' entry, without Key)
Objects == [Size : {0, 1}, LastModified : Times, present : {TRUE}]

VARIABLES
    pending,        \* S3: key -> object metadata, for the keys under <root>/pending/
    remote,         \* S3: the keys present under accepted/, rejected/, processed/
    local,          \* the local files under <root>/data/download and /processed
    task_queue,     \* Main.task_queue   (mp.Queue, FIFO)
    status_queue,   \* Main.status_queue (mp.Queue, FIFO)
    next_id,        \* TaskMessage.next_id
    max_s3_time,    \* Main.max_s3_time
    stop,           \* Main.stop
    main_pc,        \* the looped function Main.run calls next
    workers,        \* per worker process: position, claimed task, Worker.stop
    lastCycle,      \* history: what the looped function did, if it was the latest step
    seen,           \* history: the keys enqueued and unchanged in pending since
    unmarked,       \* history: the keys put by a cycle that then raised, unchanged since
    uploads,        \* the number of files put into the pending folder so far
    claimed,        \* history: the ids of the messages taken off the task queue
    joined,         \* Main.run: the workers of self.workers joined so far
    listener,       \* LogHelper.listener is running
    log_queue,      \* Main.log_queue (mp.Queue, FIFO)
    sink,           \* what the handlers of the main configuration have written
    log_pos,        \* per writer: the record it is writing and the parts left
    log_sent        \* history: the log records of the workers, as emitted

\* the state of the logging
logvars == <<log_queue, sink, log_pos, log_sent>>

vars == <<pending, remote, local, task_queue, status_queue, next_id,
          max_s3_time, stop, main_pc, workers, lastCycle, seen, unmarked, uploads,
          claimed, joined, listener, log_queue, sink, log_pos, log_sent>>

(***************************************************************************)
(* log.py : LogHelper                                                      *)
(***************************************************************************)
\* log.py:41-54  the handlers of the root logger in a worker process
config_worker == [handlers |-> {"queue"}]
\* log.py:59-88  the handlers of the root logger in the main process
config_main == [handlers |-> {"console", "file"}]

\* mp.current_process().name in the main process and in a Worker process
MainProcessName == "MainProcess"
WorkerProcessName == "Worker"

\* (variant: every process applies the configuration of the main process)
configure_AlwaysMain(process_name) == config_main

\* log.py:90-97  configure() picks the configuration by the process name
configure(process_name) ==
    IF process_name = MainProcessName THEN config_main ELSE config_worker

\* a handler of config_main writes a record as its formatted text and the
\* line terminator
Parts == <<"text", "terminator">>

\* the thread of the QueueListener (log.py:115-117); the other writers that
\* can hold a handler of the sink are the worker processes
ListenerThread == 0
Writers == Workers \cup {ListenerThread}

NoRecord == [process |-> 0, seq |-> 0]
\* a writer that is not writing
Idle == [record |-> NoRecord, left |-> 0]

(***************************************************************************)
(* task.py : TaskMessage                                                   *)
(***************************************************************************)
\* (variant: the counter is an attribute of the instance, so every message
\* gets the first id)
TaskMessage_InstanceCounter(counter, type, args) == [id |-> 1, type |-> type, args |-> args]

\* TaskMessage.__init__ : the id is the incremented class counter
TaskMessage(counter, type, args) == [id |-> counter + 1, type |-> type, args |-> args]

\* the value of a worker's 'task_message' while it holds no task
NoMessage == [id |-> 0, type |-> "", args |-> [none |-> 0]]

(***************************************************************************)
(* s3.py : S3Helper.list_files                                             *)
(***************************************************************************)
\* the position of a key in S3's listing order (the Marker '' is 0)
KeyIndex(k) == CHOOSE i \in 1..Len(KeyOrder) : KeyOrder[i] = k

\* client.list_objects(Prefix=<root>/pending/, Marker, MaxKeys): one page
list_objects(store, marker, maxk) ==
    LET after == SelectSeq(KeyOrder, LAMBDA k : KeyIndex(k) > marker /\ store[k].present)
        page  == SubSeq(after, 1, IF Len(after) < maxk THEN Len(after) ELSE maxk)
    IN [Contents |-> [i \in 1..Len(page) |->
                        [Key |-> page[i], Size |-> store[page[i]].Size,
                         LastModified |-> store[page[i]].LastModified]],
        IsTruncated |-> Len(after) > maxk]

\* the paging loop of list_files, from Marker 'marker' on
RECURSIVE list_files_from(_, _, _)
list_files_from(store, marker, result) ==
    LET response == list_objects(store, marker, max_keys)
    IN IF response.Contents = <<>>
       THEN result
       ELSE IF response.IsTruncated
            THEN list_files_from(store,
                                 KeyIndex(response.Contents[Len(response.Contents)].Key),
                                 result \o response.Contents)
            ELSE result \o response.Contents

list_files(store) == list_files_from(store, 0, <<>>)

(***************************************************************************)
(* main.py : Main.check_s3                                                 *)
(***************************************************************************)
\* (variant: the candidate starts from the minimum instant)
InitialNewTime_Min(mark) == MinTime

\* main.py:153  the candidate starts from the current mark
InitialNewTime(mark) == mark

\* (variant: the timestamp test is missing)
Skip_SizeOnly(result, mark) == result.Size = 0

\* (variant: the size test is missing)
Skip_NoSizeTest(result, mark) == result.LastModified <= mark

\* (variant: an object as old as the mark is not skipped)
Skip_Strict(result, mark) == result.Size = 0 \/ result.LastModified < mark

\* main.py:158-164  the two 'continue' tests of the loop
Skip(result, mark) == result.Size = 0 \/ result.LastModified <= mark

\* (variant: the candidate is the timestamp of the latest new object)
UpdateMax_Last(new_s3_time, result) == result.LastModified

\* main.py:166-168  'Update max'
UpdateMax(new_s3_time, result) ==
    IF result.LastModified > new_s3_time THEN result.LastModified ELSE new_s3_time

\* (variant: each object is tested against the running candidate, as if the
\* mark were replaced per object)
RECURSIVE Scan_PerObject(_, _, _)
Scan_PerObject(results, mark, st) ==
    IF results = <<>> THEN st
    ELSE LET result == Head(results)
         IN IF Skip(result, st.new_s3_time)
            THEN Scan_PerObject(Tail(results), mark, st)
            ELSE Scan_PerObject(Tail(results), mark,
                      [new_s3_time |-> UpdateMax(st.new_s3_time, result),
                       task_queue  |-> Append(st.task_queue,
                                          TaskMessage(st.next_id, "ImportTask",
                                                      [file_path |-> result.Key])),
                       next_id     |-> st.next_id + 1])

\* (variant: an object whose key is carried by a message still on the task
\* queue is skipped)
RECURSIVE Scan_OncePerKey(_, _, _)
Scan_OncePerKey(results, mark, st) ==
    IF results = <<>> THEN st
    ELSE LET result == Head(results)
             queued == \E i \in 1..Len(st.task_queue) :
                          /\ st.task_queue[i].type = "ImportTask"
                          /\ st.task_queue[i].args.file_path = result.Key
         IN IF Skip(result, mark) \/ queued
            THEN Scan_OncePerKey(Tail(results), mark, st)
            ELSE Scan_OncePerKey(Tail(results), mark,
                      [new_s3_time |-> UpdateMax(st.new_s3_time, result),
                       task_queue  |-> Append(st.task_queue,
                                          TaskMessage(st.next_id, "ImportTask",
                                                      [file_path |-> result.Key])),
                       next_id     |-> st.next_id + 1])

\* main.py:156-173  the loop over the listing; every test is against 'mark',
\* the value of self.max_s3_time, which the loop does not assign
RECURSIVE Scan(_, _, _)
Scan(results, mark, st) ==
    IF results = <<>> THEN st
    ELSE LET result == Head(results)
         IN IF Skip(result, mark)
            THEN Scan(Tail(results), mark, st)
            ELSE Scan(Tail(results), mark,
                      [new_s3_time |-> UpdateMax(st.new_s3_time, result),
                       task_queue  |-> Append(st.task_queue,
                                          TaskMessage(st.next_id, "ImportTask",
                                                      [file_path |-> result.Key])),
                       next_id     |-> st.next_id + 1])

\* the messages a queue gained over its former length
Gained(old, new) == SubSeq(new, Len(old) + 1, Len(new))

NoCycle == [outcome |-> "none", mark0 |-> MinTime, results |-> <<>>, put |-> <<>>]

\* (variant: the exception of list_files is not caught by Main.run and ends it)
check_s3_list_raises_Uncaught ==
    /\ main_pc = "check_s3"
    /\ main_pc' = "done"
    /\ lastCycle' = [outcome |-> "list_failed", mark0 |-> max_s3_time,
                     results |-> <<>>, put |-> <<>>]
    /\ UNCHANGED logvars
    /\ UNCHANGED <<pending, remote, local, task_queue, status_queue, next_id,
                   max_s3_time, stop, workers, seen, unmarked, uploads,
                   claimed, joined, listener>>

\* (variant: the mark is reset when list_files raises)
check_s3_list_raises_ResetsMark ==
    /\ main_pc = "check_s3"
    /\ main_pc' = "check_status"
    /\ max_s3_time' = MinTime
    /\ lastCycle' = [outcome |-> "list_failed", mark0 |-> max_s3_time,
                     results |-> <<>>, put |-> <<>>]
    /\ UNCHANGED logvars
    /\ UNCHANGED <<pending, remote, local, task_queue, status_queue, next_id,
                   stop, workers, seen, unmarked, uploads,
                   claimed, joined, listener>>

\* check_s3 when list_files raises: nothing is assigned, Main.run logs the
\* error (main.py:97-101) and calls the next looped function
check_s3_list_raises ==
    /\ main_pc = "check_s3"
    /\ main_pc' = "check_status"
    /\ lastCycle' = [outcome |-> "list_failed", mark0 |-> max_s3_time,
                     results |-> <<>>, put |-> <<>>]
    /\ UNCHANGED logvars
    /\ UNCHANGED <<pending, remote, local, task_queue, status_queue, next_id,
                   max_s3_time, stop, workers, seen, unmarked, uploads,
                   claimed, joined, listener>>

\* (variant: the mark is assigned inside the loop, so a cycle that raises
\* keeps the candidate it reached)
check_s3_loop_raises_KeepsCandidate(n) ==
    /\ main_pc = "check_s3"
    /\ LET results == list_files(pending)
           st == Scan(SubSeq(results, 1, n), max_s3_time,
                      [new_s3_time |-> InitialNewTime(max_s3_time),
                       task_queue |-> task_queue, next_id |-> next_id])
           put == Gained(task_queue, st.task_queue)
       IN /\ n \in 1..Len(results)
          /\ ~Skip(results[n], max_s3_time)
          /\ st.next_id <= MaxTasks
          /\ task_queue' = st.task_queue
          /\ next_id' = st.next_id
          /\ max_s3_time' = st.new_s3_time
          /\ lastCycle' = [outcome |-> "loop_failed", mark0 |-> max_s3_time,
                           results |-> results, put |-> put]
          /\ unmarked' = unmarked \cup {put[i].args.file_path : i \in 1..Len(put)}
    /\ main_pc' = "check_status"
    /\ UNCHANGED logvars
    /\ UNCHANGED <<pending, remote, local, status_queue, stop, workers, seen,
                   uploads, claimed, joined, listener>>

\* check_s3 when a statement of the loop raises after the put of the n-th
\* listed object (main.py:171-173): the messages put so far stay on the task
\* queue, the assignment of the mark (main.py:176) is not reached, Main.run
\* logs the error and calls the next looped function
check_s3_loop_raises(n) ==
    /\ main_pc = "check_s3"
    /\ LET results == list_files(pending)
           st == Scan(SubSeq(results, 1, n), max_s3_time,
                      [new_s3_time |-> InitialNewTime(max_s3_time),
                       task_queue |-> task_queue, next_id |-> next_id])
           put == Gained(task_queue, st.task_queue)
       IN /\ n \in 1..Len(results)
          /\ ~Skip(results[n], max_s3_time)
          /\ st.next_id <= MaxTasks
          /\ task_queue' = st.task_queue
          /\ next_id' = st.next_id
          /\ lastCycle' = [outcome |-> "loop_failed", mark0 |-> max_s3_time,
                           results |-> results, put |-> put]
          /\ unmarked' = unmarked \cup {put[i].args.file_path : i \in 1..Len(put)}
    /\ main_pc' = "check_status"
    /\ UNCHANGED logvars
    /\ UNCHANGED <<pending, remote, local, status_queue, max_s3_time, stop,
                   workers, seen, uploads, claimed, joined, listener>>

\* check_s3 running to its end
check_s3_completes ==
    /\ main_pc = "check_s3"
    /\ LET results == list_files(pending)
           st == Scan(results, max_s3_time,
                      [new_s3_time |-> InitialNewTime(max_s3_time),
                       task_queue |-> task_queue, next_id |-> next_id])
           put == Gained(task_queue, st.task_queue)
       IN /\ st.next_id <= MaxTasks
          /\ task_queue' = st.task_queue
          /\ next_id' = st.next_id
          /\ max_s3_time' = st.new_s3_time
          /\ lastCycle' = [outcome |-> "completed", mark0 |-> max_s3_time,
                           results |-> results, put |-> put]
          /\ seen' = seen \cup {put[i].args.file_path : i \in 1..Len(put)}
          /\ unmarked' = unmarked \ {put[i].args.file_path : i \in 1..Len(put)}
    /\ main_pc' = "check_status"
    /\ UNCHANGED logvars
    /\ UNCHANGED <<pending, remote, local, status_queue, stop, workers, uploads,
                   claimed, joined, listener>>

check_s3 == check_s3_list_raises \/ check_s3_completes

(***************************************************************************)
(* main.py : Main.check_status                                             *)
(***************************************************************************)
\* (variant: the test of the loop is inverted)
NextIteration_Inverted(stopflag) == IF stopflag THEN "check_s3" ELSE "join"

\* main.py:93  'while not self.stop', tested after the last looped function
\* and the sleep: the next iteration, or the clean-up of run()
NextIteration(stopflag) == IF stopflag THEN "join" ELSE "check_s3"

\* (variant: the example shut-down of main.py:125-129 is active; the stop
\* flag is set when a status message is received)
check_status_ShutsDown ==
    /\ main_pc = "check_status"
    /\ status_queue' = <<>>
    /\ stop' = (stop \/ status_queue # <<>>)
    /\ main_pc' = NextIteration(stop')
    /\ lastCycle' = NoCycle
    /\ UNCHANGED logvars
    /\ UNCHANGED <<pending, remote, local, task_queue, next_id, max_s3_time,
                   workers, seen, unmarked, uploads,
                   claimed, joined, listener>>

\* drains the status queue; the messages are only logged.  Main.run then
\* sleeps and tests 'stop'
check_status ==
    /\ main_pc = "check_status"
    /\ status_queue' = <<>>
    /\ main_pc' = NextIteration(stop)
    /\ lastCycle' = NoCycle
    /\ UNCHANGED logvars
    /\ UNCHANGED <<pending, remote, local, task_queue, next_id, max_s3_time,
                   stop, workers, seen, unmarked, uploads,
                   claimed, joined, listener>>

\* check_status when status_queue.get(True, 5) raises after n messages were
\* received: Main.run logs the error, sleeps and tests 'stop'
check_status_raises(n) ==
    /\ main_pc = "check_status"
    /\ n < Len(status_queue)
    /\ status_queue' = SubSeq(status_queue, n + 1, Len(status_queue))
    /\ main_pc' = NextIteration(stop)
    /\ lastCycle' = [outcome |-> "status_failed", mark0 |-> max_s3_time,
                     results |-> <<>>, put |-> <<>>]
    /\ UNCHANGED logvars
    /\ UNCHANGED <<pending, remote, local, task_queue, next_id, max_s3_time,
                   stop, workers, seen, unmarked, uploads,
                   claimed, joined, listener>>

(***************************************************************************)
(* main.py : Main.run, the end of the loop                                 *)
(***************************************************************************)
\* Main.stop is set by nothing in the loop as shipped (the example in
\* check_status, main.py:125-129, is commented out); a looped function added
\* to looped_functions (main.py:86-90) sets it between two calls of the loop
request_stop ==
    /\ main_pc \in {"check_s3", "check_status"}
    /\ ~stop
    /\ stop' = TRUE
    /\ lastCycle' = NoCycle
    /\ UNCHANGED logvars
    /\ UNCHANGED <<pending, remote, local, task_queue, status_queue, next_id,
                   max_s3_time, main_pc, workers, seen, unmarked, uploads,
                   claimed, joined, listener>>

\* Process.join() returns once the worker process has exited, by the end of
\* run() or by an exception
Exited(worker) == worker.pc \in {"ended", "crashed"}

\* (variant: join() does not wait for the worker)
CanJoin_NoWait(worker) == TRUE

\* main.py:110-111  worker.join() returns
CanJoin(worker) == Exited(worker)

\* main.py:110-111  'for worker in self.workers: worker.join()', one worker
\* of the list after the other
join_worker ==
    /\ main_pc = "join"
    /\ joined < MaxWorkers
    /\ CanJoin(workers[joined + 1])
    /\ joined' = joined + 1
    /\ lastCycle' = NoCycle
    /\ UNCHANGED logvars
    /\ UNCHANGED <<pending, remote, local, task_queue, status_queue, next_id,
                   max_s3_time, stop, main_pc, workers, seen, unmarked, uploads,
                   claimed, listener>>

\* main.py:112-113  self.log_helper.listener.stop(); run() returns.  stop()
\* returns once the listener thread has handled the records put before it
stop_listener ==
    /\ main_pc = "join"
    /\ joined = MaxWorkers
    /\ log_queue = <<>>
    /\ log_pos[ListenerThread] = Idle
    /\ listener' = FALSE
    /\ main_pc' = "done"
    /\ lastCycle' = NoCycle
    /\ UNCHANGED logvars
    /\ UNCHANGED <<pending, remote, local, task_queue, status_queue, next_id,
                   max_s3_time, stop, workers, seen, unmarked, uploads,
                   claimed, joined>>

(***************************************************************************)
(* main.py : Main.create_test_task, and the same put for the other tags    *)
(***************************************************************************)
\* the names task.py binds to a Task subclass with do() and cleanup()
TaskClasses == {"TestTask", "KillSelfTask", "ImportTask"}
\* the tags of the messages put on the queue besides those of check_s3
PutTypes == {"TestTask", "KillSelfTask", "NoSuchTask"}

\* create_test_task passes {'wait_time': 2}; the default of 'args' is {}
ArgsOf(type) == IF type = "TestTask" THEN [wait_time |-> 2] ELSE NoMessage.args

create_task(type) ==
    /\ next_id < MaxTasks
    /\ task_queue' = Append(task_queue, TaskMessage(next_id, type, ArgsOf(type)))
    /\ next_id' = next_id + 1
    /\ lastCycle' = NoCycle
    /\ UNCHANGED logvars
    /\ UNCHANGED <<pending, remote, local, status_queue, max_s3_time, stop,
                   main_pc, workers, seen, unmarked, uploads,
                   claimed, joined, listener>>

(***************************************************************************)
(* The environment: somebody uploads a file into the pending folder        *)
(* (test.py:80-84 does it with S3Helper.upload_file).                      *)
(***************************************************************************)
upload_pending(k, size, time) ==
    /\ uploads < MaxUploads
    /\ uploads' = uploads + 1
    /\ pending' = [pending EXCEPT ![k] =
                      [Size |-> size, LastModified |-> time, present |-> TRUE]]
    /\ seen' = IF pending[k].present /\ pending[k].LastModified = time
               THEN seen ELSE seen \ {k}
    /\ unmarked' = IF pending[k] = pending'[k] THEN unmarked ELSE unmarked \ {k}
    /\ lastCycle' = NoCycle
    /\ UNCHANGED logvars
    /\ UNCHANGED <<remote, local, task_queue, status_queue, next_id, max_s3_time,
                   stop, main_pc, workers, claimed, joined, listener>>

(***************************************************************************)
(* task.py : TaskMessage.to_task, StatusMessage, ImportTask._parse         *)
(***************************************************************************)
StatusMessage(value, task_message) == [value |-> value, task_message |-> task_message]

\* to_task returns globals()[self.type](worker, self, s3); a type that names
\* nothing in task.py makes the lookup raise KeyError
to_task_raises(m) == m.type \notin TaskClasses

\* task.py:239  the predefined list of file types
FileTypes == {"test1", "test2", "test3", "mmr", "mor"}

\* task.py:226-239  the three assertions of _parse
parse_ok(file_path) ==
    LET elements == file_path.dirs \o <<file_path.file>>
    IN /\ Len(elements) = 3
       /\ Len(file_path.file) = 2
       /\ file_path.file[1] \in FileTypes

\* task.py:228-230, 245-251  the attributes _parse sets after the assertions
client(file_path) == file_path.dirs[2]
file_name(file_path) == file_path.file
download_path(k)  == [folder |-> "download",  client |-> client(k), file |-> file_name(k)]
processed_path(k) == [folder |-> "processed", client |-> client(k), file |-> file_name(k)]
upload_path(k)    == [folder |-> "processed", client |-> client(k), file |-> file_name(k)]
accepted_path(k)  == [folder |-> "accepted",  client |-> client(k), file |-> file_name(k)]
rejected_path(k)  == [folder |-> "rejected",  client |-> client(k), file |-> file_name(k)]

(***************************************************************************)
(* worker.py : Worker.run                                                  *)
(***************************************************************************)
\* A worker process.  pc is its position in run(); msg, status and parsed
\* are the claimed message, task.status_message.value and whether _parse
\* has set the path attributes of the task.  The last four fields record
\* what was done for the task held: the stages of ImportTask.do started,
\* the values put on the status queue, the number of cleanup() calls and
\* the destinations of the move_file calls; 'raised' is the stage of do()
\* whose exception reached the except clause of run() ("none": do() returned)
\* and 'error' is the exception that left run(), if one did.  A worker that returns to the claim forgets its
\* task; a worker that died keeps the record.
NewWorker(stopflag) ==
    [pc |-> IF stopflag THEN "ended" ELSE "get", msg |-> NoMessage,
     status |-> "in_progress", parsed |-> FALSE, stop |-> stopflag,
     stages |-> <<>>, reports |-> <<>>, cleanups |-> 0, moves |-> <<>>,
     raised |-> "none", error |-> "none"]

KeyOf(w) == workers[w].msg.args.file_path

\* (variant: the loop does not test the stop flag)
AfterCleanup_IgnoresStop(w) == workers' = [workers EXCEPT ![w] = NewWorker(FALSE)]

\* cleanup() returned: the task is dropped and 'while not self.stop' is tested
AfterCleanup(w) == workers' = [workers EXCEPT ![w] = NewWorker(workers[w].stop)]

\* an exception leaves run(): the worker process dies while holding its task
\* (ClientError stands for an error of an S3 call that the state of the
\* bucket does not explain; NoSuchKey is copy_object on a missing source)
Crash(w, error) == workers' = [workers EXCEPT ![w].pc = "crashed", ![w].error = error]

\* (variant: get() returns the head of the queue and leaves it there)
Dequeue_Peek(queue) == queue

\* mp.Queue.get(): the message returned is taken off the queue
Dequeue(queue) == Tail(queue)

\* (variant: get() returns the message put last)
NextMessage_Last(queue) == queue[Len(queue)]

\* mp.Queue.get(): the message returned is the one put first
NextMessage(queue) == Head(queue)

\* worker.py:60-62  task_queue.get() and to_task(); both are outside the try
Claim(w) ==
    /\ workers[w].pc = "get"
    /\ task_queue # <<>>
    /\ LET m == NextMessage(task_queue)
       IN /\ task_queue' = Dequeue(task_queue)
          /\ claimed' = claimed \cup {m.id}
          /\ workers' = [workers EXCEPT
                            ![w].msg = m,
                            ![w].pc = IF to_task_raises(m) THEN "crashed" ELSE "do",
                            ![w].error = IF to_task_raises(m) THEN "KeyError" ELSE @]
    /\ lastCycle' = NoCycle
    /\ UNCHANGED logvars
    /\ UNCHANGED <<pending, remote, local, status_queue, next_id, max_s3_time,
                   stop, main_pc, seen, unmarked, uploads, joined, listener>>

\* worker.py:68, 72  the value set after do() returned, or in the except clause
StatusValue(raised) == IF raised = "none" THEN "success" ELSE "failure"

\* (variant: the status message is not put before cleanup runs)
Report_NoPut(w, raised, stages, parsed, sets_stop) ==
    /\ workers' = [workers EXCEPT ![w].pc = "cleanup",
                                  ![w].status = StatusValue(raised),
                                  ![w].stop = workers[w].stop \/ sets_stop,
                                  ![w].parsed = parsed,
                                  ![w].stages = stages,
                                  ![w].raised = raised]
    /\ status_queue' = status_queue

\* worker.py:66-73  do() returned or raised at stage 'raised': the status
\* value is set and the status message is put on the status queue;
\* cleanup() is next
Report(w, raised, stages, parsed, sets_stop) ==
    /\ workers' = [workers EXCEPT ![w].pc = "cleanup",
                                  ![w].status = StatusValue(raised),
                                  ![w].stop = workers[w].stop \/ sets_stop,
                                  ![w].parsed = parsed,
                                  ![w].reports = Append(@, StatusValue(raised)),
                                  ![w].stages = stages,
                                  ![w].raised = raised]
    /\ status_queue' = Append(status_queue,
                              StatusMessage(StatusValue(raised), workers[w].msg))

\* TestTask.do (sleeps and returns) and KillSelfTask.do (sets worker.stop)
DoSimple(w) ==
    /\ workers[w].pc = "do"
    /\ workers[w].msg.type # "ImportTask"
    /\ Report(w, "none", <<>>, FALSE, workers[w].msg.type = "KillSelfTask")
    /\ lastCycle' = NoCycle
    /\ UNCHANGED logvars
    /\ UNCHANGED <<pending, remote, local, task_queue, next_id, max_s3_time,
                   stop, main_pc, seen, unmarked, uploads,
                   claimed, joined, listener>>

\* TestTask.cleanup and KillSelfTask.cleanup: pass
CleanupSimple(w) ==
    /\ workers[w].pc = "cleanup"
    /\ workers[w].msg.type # "ImportTask"
    /\ AfterCleanup(w)
    /\ lastCycle' = NoCycle
    /\ UNCHANGED logvars
    /\ UNCHANGED <<pending, remote, local, task_queue, status_queue, next_id,
                   max_s3_time, stop, main_pc, seen, unmarked, uploads,
                   claimed, joined, listener>>

(***************************************************************************)
(* task.py : ImportTask.do                                                 *)
(***************************************************************************)
\* task.py:191-196  the stages of do(), in the order of the calls
StageOrder == <<"parse", "download", "preprocess", "upload", "import", "postprocess">>

\* the stages that can raise for a reason outside the task: an S3 or local
\* file error in _download, _preprocess (copyfile) or _upload ("none": no
\* such error).  _import and _postprocess are 'pass'.
IoFailures == {"none", "download", "preprocess", "upload"}

\* the stage at which do() raises, "none" if it returns: _parse raises on its
\* assertions, _download when the object is gone or on an error, _preprocess
\* and _upload on an error
RaisingStage(file_path, store, io_failure) ==
    IF ~parse_ok(file_path) THEN "parse"
    ELSE IF ~store[file_path].present \/ io_failure = "download" THEN "download"
    ELSE io_failure

StageIndex(stage) == CHOOSE i \in 1..Len(StageOrder) : StageOrder[i] = stage

\* (variant: a stage that raises does not stop the stages after it)
RECURSIVE StagesFrom_NoAbort(_, _)
StagesFrom_NoAbort(i, raising) ==
    IF i > Len(StageOrder) THEN <<>>
    ELSE <<StageOrder[i]>> \o StagesFrom_NoAbort(i + 1, raising)

\* task.py:191-196  the calls of do() from the i-th on: a call that raises
\* ends do(), the calls after it are not made
RECURSIVE StagesFrom(_, _)
StagesFrom(i, raising) ==
    IF i > Len(StageOrder) THEN <<>>
    ELSE IF StageOrder[i] = raising THEN <<StageOrder[i]>>
    ELSE <<StageOrder[i]>> \o StagesFrom(i + 1, raising)

\* the stages do() starts: all of them, or those up to the raising one
StagesRun(raising) == StagesFrom(1, raising)

\* stage 'stage' returned normally
Passed(stage, raising) == raising = "none" \/ StageIndex(stage) < StageIndex(raising)

\* do() of an ImportTask, from _parse to its return or to the stage that
\* raises, and the status report that follows in Worker.run
DoImport(w, io_failure) ==
    /\ workers[w].pc = "do"
    /\ workers[w].msg.type = "ImportTask"
    /\ LET k == KeyOf(w)
           raising == RaisingStage(k, pending, io_failure)
       IN /\ Report(w, raising, StagesRun(raising), Passed("parse", raising), FALSE)
          /\ local' = local
                \cup (IF Passed("download", raising) THEN {download_path(k)} ELSE {})
                \cup (IF Passed("preprocess", raising) THEN {processed_path(k)} ELSE {})
          /\ remote' = remote
                \cup (IF Passed("upload", raising) THEN {upload_path(k)} ELSE {})
    /\ lastCycle' = NoCycle
    /\ UNCHANGED logvars
    /\ UNCHANGED <<pending, task_queue, next_id, max_s3_time, stop, main_pc,
                   seen, unmarked, uploads,
                   claimed, joined, listener>>

(***************************************************************************)
(* task.py : ImportTask.cleanup ; s3.py : move_file, copy_file, delete_file*)
(***************************************************************************)
\* task.py:312-315  the destination of the move
MoveTarget(status, k) == IF status = "success" THEN accepted_path(k) ELSE rejected_path(k)

\* the task has the attributes accepted_path and rejected_path
HasPaths(w) == workers[w].parsed

\* (variant: move_file goes on to the delete although the copy raised)
AfterCopy_DeletesAnyway(copied) == "cleanup_delete"

\* s3.py:221-223  move_file: delete_file is called after copy_file returned;
\* an exception of copy_file leaves move_file, cleanup and run()
AfterCopy(copied) == IF copied THEN "cleanup_delete" ELSE "crashed"

\* cleanup() up to the copy of move_file.  self.accepted_path and
\* self.rejected_path exist only if _parse got past its assertions, and the
\* argument of move_file is evaluated before the call: without them cleanup
\* raises AttributeError and no move is issued.  copy_object raises when the
\* source is gone or S3 cannot be reached.
CleanupCopy(w, io_error) ==
    /\ workers[w].pc = "cleanup"
    /\ workers[w].msg.type = "ImportTask"
    /\ IF ~HasPaths(w)
       THEN /\ workers' = [workers EXCEPT ![w].pc = "crashed", ![w].cleanups = @ + 1,
                                         ![w].error = "AttributeError"]
            /\ UNCHANGED remote
       ELSE LET target == MoveTarget(workers[w].status, KeyOf(w))
                copied == pending[KeyOf(w)].present /\ ~io_error
            IN /\ workers' = [workers EXCEPT
                                 ![w].pc = AfterCopy(copied),
                                 ![w].error = IF copied THEN @
                                              ELSE IF pending[KeyOf(w)].present
                                                   THEN "ClientError" ELSE "NoSuchKey",
                                 ![w].cleanups = @ + 1,
                                 ![w].moves = Append(@, target.folder)]
               /\ remote' = IF copied THEN remote \cup {target} ELSE remote
    /\ lastCycle' = NoCycle
    /\ UNCHANGED logvars
    /\ UNCHANGED <<pending, local, task_queue, status_queue, next_id, max_s3_time,
                   stop, main_pc, seen, unmarked, uploads,
                   claimed, joined, listener>>

\* the delete of move_file: delete_object of the pending key
CleanupDelete(w, io_error) ==
    /\ workers[w].pc = "cleanup_delete"
    /\ IF io_error
       THEN Crash(w, "ClientError") /\ UNCHANGED <<pending, seen, unmarked>>
       ELSE /\ pending' = [pending EXCEPT ![KeyOf(w)] = Absent]
            /\ seen' = seen \ {KeyOf(w)}
            /\ unmarked' = unmarked \ {KeyOf(w)}
            /\ workers' = [workers EXCEPT ![w].pc = "cleanup_rest"]
    /\ lastCycle' = NoCycle
    /\ UNCHANGED logvars
    /\ UNCHANGED <<remote, local, task_queue, status_queue, next_id, max_s3_time,
                   stop, main_pc, uploads,
                   claimed, joined, listener>>

\* task.py:317-332  the two try/except blocks that remove the local files,
\* then delete_file of the S3 'processed' object; cleanup returns
CleanupRest(w, io_error) ==
    /\ workers[w].pc = "cleanup_rest"
    /\ local' = local \ {download_path(KeyOf(w)), processed_path(KeyOf(w))}
    /\ IF io_error
       THEN Crash(w, "ClientError") /\ UNCHANGED remote
       ELSE /\ remote' = remote \ {upload_path(KeyOf(w))}
            /\ AfterCleanup(w)
    /\ lastCycle' = NoCycle
    /\ UNCHANGED logvars
    /\ UNCHANGED <<pending, task_queue, status_queue, next_id, max_s3_time,
                   stop, main_pc, seen, unmarked, uploads,
                   claimed, joined, listener>>

(***************************************************************************)
(* Logging: log.info / log.error in a worker process, and the              *)
(* QueueListener of the main process                                       *)
(***************************************************************************)
\* the next record of worker w
NewRecord(w) ==
    [process |-> w,
     seq |-> 1 + Cardinality({i \in 1..Len(log_sent) : log_sent[i].process = w})]

\* a log call of a worker process (worker.py:51, 63, 71, 78 and the calls
\* in task.py and s3.py): the record goes to every handler of the root
\* logger the process configured in run() (worker.py:49-50).  The
\* QueueHandler puts the whole record on the log queue; a handler of the
\* sink starts writing it from the worker process.
worker_log(w) ==
    /\ ~Exited(workers[w])
    /\ Len(log_sent) < MaxRecords
    /\ log_pos[w] = Idle
    /\ LET record == NewRecord(w)
           handlers == configure(WorkerProcessName).handlers
       IN /\ log_sent' = Append(log_sent, record)
          /\ log_queue' = IF "queue" \in handlers
                          THEN Append(log_queue, record) ELSE log_queue
          /\ log_pos' = IF "file" \in handlers
                        THEN [log_pos EXCEPT ![w] = [record |-> record, left |-> Len(Parts)]]
                        ELSE log_pos
    /\ lastCycle' = NoCycle
    /\ UNCHANGED sink
    /\ UNCHANGED <<pending, remote, local, task_queue, status_queue, next_id,
                   max_s3_time, stop, main_pc, workers, seen, unmarked, uploads,
                   claimed, joined, listener>>

\* the listener thread takes the record at the front of the log queue and
\* hands it to the handlers of the main configuration (log.py:115)
listener_get ==
    /\ listener
    /\ log_queue # <<>>
    /\ log_pos[ListenerThread] = Idle
    /\ log_pos' = [log_pos EXCEPT
                      ![ListenerThread] = [record |-> Head(log_queue), left |-> Len(Parts)]]
    /\ log_queue' = Tail(log_queue)
    /\ lastCycle' = NoCycle
    /\ UNCHANGED <<sink, log_sent>>
    /\ UNCHANGED <<pending, remote, local, task_queue, status_queue, next_id,
                   max_s3_time, stop, main_pc, workers, seen, unmarked, uploads,
                   claimed, joined, listener>>

\* a writer writes the next part of its record to the sink
write(p) ==
    /\ log_pos[p].left > 0
    /\ sink' = Append(sink, [record |-> log_pos[p].record,
                             part |-> Parts[Len(Parts) - log_pos[p].left + 1],
                             by |-> p])
    /\ log_pos' = [log_pos EXCEPT
                      ![p] = IF @.left = 1 THEN Idle ELSE [@ EXCEPT !.left = @ - 1]]
    /\ lastCycle' = NoCycle
    /\ UNCHANGED <<log_queue, log_sent>>
    /\ UNCHANGED <<pending, remote, local, task_queue, status_queue, next_id,
                   max_s3_time, stop, main_pc, workers, seen, unmarked, uploads,
                   claimed, joined, listener>>

(***************************************************************************)
(* The system                                                              *)
(***************************************************************************)
Init ==
    /\ pending = [k \in Keys |-> Absent]
    /\ remote = {}
    /\ local = {}
    /\ task_queue = <<>>
    /\ status_queue = <<>>
    /\ next_id = 0
    /\ max_s3_time = MinTime
    /\ stop = FALSE
    /\ main_pc = "check_s3"
    /\ workers = [w \in Workers |-> NewWorker(FALSE)]
    /\ lastCycle = NoCycle
    /\ seen = {}
    /\ unmarked = {}
    /\ uploads = 0
    /\ claimed = {}
    /\ joined = 0
    /\ listener = TRUE
    /\ log_queue = <<>>
    /\ sink = <<>>
    /\ log_pos = [p \in Writers |-> Idle]
    /\ log_sent = <<>>

WorkerStep(w) ==
    \/ Claim(w)
    \/ DoSimple(w)
    \/ CleanupSimple(w)
    \/ \E io_failure \in IoFailures : DoImport(w, io_failure)
    \/ \E io_error \in BOOLEAN : CleanupCopy(w, io_error)
    \/ \E io_error \in BOOLEAN : CleanupDelete(w, io_error)
    \/ \E io_error \in BOOLEAN : CleanupRest(w, io_error)

\* (the log calls, and an exception inside the loop of check_s3, are left
\* out of the steps below; LogSpec and AbortSpec have them)
Next ==
    \/ check_s3
    \/ check_status
    \/ \E n \in 0..MaxTasks : check_status_raises(n)
    \/ \E type \in PutTypes : create_task(type)
    \/ \E k \in Keys, size \in {0, 1}, time \in Times : upload_pending(k, size, time)
    \/ \E w \in Workers : WorkerStep(w)

Spec == Init /\ [][Next]_vars

\* The coordinator as Main.run drives it: the poll cycle and the status drain
\* (looped_functions, main.py:69-72; nothing in the loop calls
\* create_test_task), against the uploads into the pending folder and the
\* workers' claims that empty the task queue
PollNext ==
    \/ check_s3
    \/ check_status
    \/ \E k \in Keys, size \in {0, 1}, time \in Times : upload_pending(k, size, time)
    \/ \E w \in Workers : Claim(w)

PollSpec == Init /\ [][PollNext]_vars

\* The coordinator with a poll cycle that can also raise inside its loop,
\* after a put
AbortNext ==
    \/ check_s3
    \/ \E n \in 1..Len(KeyOrder) : check_s3_loop_raises(n)
    \/ check_status
    \/ \E k \in Keys, size \in {0, 1}, time \in Times : upload_pending(k, size, time)
    \/ \E w \in Workers : Claim(w)

AbortSpec == Init /\ [][AbortNext]_vars

\* The import path up to cleanup: the poll cycle turns uploads into
\* ImportTask messages, the workers claim them and run do() (worker.py:60-73)
ImportNext ==
    \/ check_s3
    \/ check_status
    \/ \E k \in Keys, size \in {0, 1}, time \in Times : upload_pending(k, size, time)
    \/ \E w \in Workers : Claim(w)
    \/ \E w \in Workers, io_failure \in IoFailures : DoImport(w, io_failure)

ImportSpec == Init /\ [][ImportNext]_vars

\* The worker pool with the end of Main.run: messages of the types put
\* besides check_s3 (nothing is uploaded, so check_s3 lists an empty folder
\* or fails), a looped function that sets Main.stop, the joins
PoolNext ==
    \/ check_s3
    \/ check_status
    \/ \E n \in 0..MaxTasks : check_status_raises(n)
    \/ request_stop
    \/ join_worker
    \/ stop_listener
    \/ \E type \in PutTypes : create_task(type)
    \/ \E w \in Workers : Claim(w)
    \/ \E w \in Workers : DoSimple(w)
    \/ \E w \in Workers : CleanupSimple(w)

PoolSpec == Init /\ [][PoolNext]_vars

\* The life of an ImportTask to the end of its cleanup: a non-empty file
\* with a valid key is uploaded (and overwritten), the poll cycle turns it
\* into messages, the workers run do() and cleanup().  do() fails here only
\* when the object is gone, and of the S3 calls of cleanup only the copy
\* meets an error of its own.
CleanupNext ==
    \/ check_s3
    \/ check_status
    \/ \E time \in Times : upload_pending(KeyGood, 1, time)
    \/ \E w \in Workers : Claim(w)
    \/ \E w \in Workers : DoImport(w, "none")
    \/ \E w \in Workers, io_error \in BOOLEAN : CleanupCopy(w, io_error)
    \/ \E w \in Workers : CleanupDelete(w, FALSE)
    \/ \E w \in Workers : CleanupRest(w, FALSE)

CleanupSpec == Init /\ [][CleanupNext]_vars

\* The logging alone: the log calls of the worker processes against the
\* listener thread of the main process
LogNext ==
    \/ \E w \in Workers : worker_log(w)
    \/ listener_get
    \/ \E p \in Writers : write(p)

LogSpec == Init /\ [][LogNext]_vars

\* Main.run loops for ever (its stop flag is never set), and the worker
\* processes are scheduled by the operating system: a process that can take
\* a step eventually takes one
FairSpec ==
    /\ Spec
    /\ WF_vars(check_s3 \/ check_status \/ \E n \in 0..MaxTasks : check_status_raises(n))
    /\ \A w \in Workers : WF_vars(WorkerStep(w))

TypeOK ==
    /\ \A k \in Keys : pending[k] \in Objects \cup {Absent}
    /\ next_id \in 0..MaxTasks
    /\ max_s3_time \in {MinTime} \cup Times
    /\ stop \in BOOLEAN
    /\ main_pc \in {"check_s3", "check_status", "join", "done"}
    /\ seen \subseteq Keys
    /\ unmarked \subseteq Keys
    /\ uploads \in 0..MaxUploads
    /\ claimed \subseteq TaskIds
    /\ joined \in 0..MaxWorkers
    /\ listener \in BOOLEAN
    /\ Len(log_sent) <= MaxRecords
    /\ \A i \in 1..Len(log_queue) : log_queue[i].process \in Workers
    /\ \A p \in Writers : log_pos[p].left \in 0..Len(Parts)
    /\ \A i \in 1..Len(sink) : sink[i].by \in Writers
    /\ \A w \in Workers : workers[w].pc \in
          {"get", "do", "cleanup", "cleanup_delete", "cleanup_rest", "crashed", "ended"}
    /\ \A w \in Workers : workers[w].error \in
          {"none", "KeyError", "AttributeError", "ClientError", "NoSuchKey"}
    /\ \A w \in Workers : workers[w].pc = "crashed" <=> workers[w].error # "none"
    /\ \A w \in Workers : workers[w].raised \in {"none"} \cup Range(StageOrder)
    /\ \A w \in Workers : workers[w].status \in {"in_progress", "success", "failure"}

(***************************************************************************)
(* Properties of the poll cycle (check_s3)                                 *)
(***************************************************************************)
\* the number of ImportTask messages the cycle put for key k
PutCount(cycle, k) ==
    Cardinality({j \in 1..Len(cycle.put) :
                    /\ cycle.put[j].type = "ImportTask"
                    /\ cycle.put[j].args.file_path = k})

\* the listed objects of the cycle that produced a descriptor
Producers(cycle) ==
    {i \in 1..Len(cycle.results) : PutCount(cycle, cycle.results[i].Key) > 0}

Max(S) == CHOOSE x \in S : \A y \in S : y <= x

\* C1: in a poll cycle whose listing succeeds, exactly one ImportTask message
\* carrying the key is put for each listed object with Size > 0 and
\* LastModified > the mark held at cycle start, none is put for any other
\* listed object (so none for an object of Size 0), and nothing else is put.
C1_OnePerNewObject ==
    lastCycle.outcome = "completed" =>
        /\ \A i \in 1..Len(lastCycle.results) :
              LET result == lastCycle.results[i]
              IN PutCount(lastCycle, result.Key) =
                   IF result.Size > 0 /\ result.LastModified > lastCycle.mark0
                   THEN 1 ELSE 0
        /\ \A j \in 1..Len(lastCycle.put) :
              /\ lastCycle.put[j].type = "ImportTask"
              /\ \E i \in 1..Len(lastCycle.results) :
                    lastCycle.results[i].Key = lastCycle.put[j].args.file_path

\* a completed cycle that listed an empty object newer than the mark next to
\* a new non-empty one, and put one message
C1_Witness ==
    /\ lastCycle.outcome = "completed"
    /\ Len(lastCycle.put) = 1
    /\ \E i, j \in 1..Len(lastCycle.results) :
          /\ lastCycle.results[i].Size = 0
          /\ lastCycle.results[i].LastModified > lastCycle.mark0
          /\ lastCycle.results[j].Size > 0
          /\ lastCycle.results[j].LastModified > lastCycle.mark0
          /\ lastCycle.put[1].args.file_path = lastCycle.results[j].Key

\* C8: after a completed poll cycle the mark is the maximum LastModified of
\* the objects that produced a descriptor in the cycle, and the pre-cycle
\* mark if none did.
C8_MarkIsMaxOfProducers ==
    lastCycle.outcome = "completed" =>
        max_s3_time =
            IF Producers(lastCycle) = {}
            THEN lastCycle.mark0
            ELSE Max({lastCycle.results[i].LastModified : i \in Producers(lastCycle)})

\* a completed cycle in which two objects produced a descriptor and the one
\* listed first is the newer
C8_Witness ==
    /\ lastCycle.outcome = "completed"
    /\ Producers(lastCycle) = {1, 2}
    /\ lastCycle.results[1].LastModified > lastCycle.results[2].LastModified
    /\ max_s3_time = lastCycle.results[1].LastModified

\* C9: the mark starts at the minimum instant and no step (completed or
\* failing poll cycle, status drain, upload, claim of a worker) lowers it.
C9_MarkMonotone ==
    /\ max_s3_time = MinTime
    /\ [][max_s3_time' >= max_s3_time]_vars

\* a cycle that started from a mark already raised, and kept or raised it
C9_Witness ==
    /\ lastCycle.outcome \in {"completed", "list_failed"}
    /\ lastCycle.mark0 > MinTime
    /\ max_s3_time >= lastCycle.mark0

\* C10: once a completed cycle has enqueued the object at a key, and while the
\* object stays in pending with the same LastModified (k \in seen), a poll
\* cycle puts no message for that key.
C10_NoSecondDescriptor ==
    [][(main_pc = "check_s3" /\ main_pc' = "check_status") =>
          \A k \in seen :
             \A j \in 1..Len(Gained(task_queue, task_queue')) :
                LET m == Gained(task_queue, task_queue')[j]
                IN ~(m.type = "ImportTask" /\ m.args.file_path = k)]_vars

\* a completed cycle that listed a non-empty object enqueued by an earlier
\* cycle and unchanged since, and put nothing for it
C10_Witness ==
    /\ lastCycle.outcome = "completed"
    /\ \E i \in 1..Len(lastCycle.results) :
          /\ lastCycle.results[i].Key \in seen
          /\ lastCycle.results[i].Size > 0
          /\ lastCycle.results[i].LastModified <= lastCycle.mark0
          /\ PutCount(lastCycle, lastCycle.results[i].Key) = 0

\* the permutations of 1..n, and a sequence reordered by one
Perms(n) == {p \in [1..n -> 1..n] : \A i, j \in 1..n : p[i] = p[j] => i = j}
Reorder(seq, p) == [i \in 1..Len(seq) |-> seq[p[i]]]

\* the keys carried by the messages of a queue
PutKeys(queue) == {queue[i].args.file_path : i \in 1..Len(queue)}

\* the loop of check_s3 run on a listing from an empty queue
ScanOf(results, mark) ==
    Scan(results, mark, [new_s3_time |-> InitialNewTime(mark),
                         task_queue |-> <<>>, next_id |-> 0])

\* C11: in a completed poll cycle every listed object is tested against the
\* pre-cycle mark and the mark is assigned once, at the end: the loop run on
\* any reordering of the listing puts messages for the same keys and ends
\* with the same mark as the cycle did, and two listed non-empty objects
\* newer than the pre-cycle mark both get a message whatever their
\* timestamps are.
C11_OrderIndependent ==
    lastCycle.outcome = "completed" =>
        /\ \A p \in Perms(Len(lastCycle.results)) :
              LET st == ScanOf(Reorder(lastCycle.results, p), lastCycle.mark0)
              IN /\ PutKeys(st.task_queue) = PutKeys(lastCycle.put)
                 /\ Len(st.task_queue) = Len(lastCycle.put)
                 /\ st.new_s3_time = max_s3_time
        /\ \A i, j \in 1..Len(lastCycle.results) :
              LET a == lastCycle.results[i]
                  b == lastCycle.results[j]
              IN (/\ i # j
                  /\ a.Size > 0 /\ a.LastModified > lastCycle.mark0
                  /\ b.Size > 0 /\ b.LastModified > lastCycle.mark0)
                 => a.Key \in PutKeys(lastCycle.put) /\ b.Key \in PutKeys(lastCycle.put)

\* a completed cycle whose listing held two new non-empty objects with
\* different timestamps, the newer listed first, and put a message for each
C11_Witness ==
    /\ lastCycle.outcome = "completed"
    /\ Len(lastCycle.results) = 2
    /\ lastCycle.results[1].Size > 0 /\ lastCycle.results[2].Size > 0
    /\ lastCycle.mark0 < lastCycle.results[2].LastModified
    /\ lastCycle.results[2].LastModified < lastCycle.results[1].LastModified
    /\ PutKeys(lastCycle.put) = {lastCycle.results[1].Key, lastCycle.results[2].Key}

\* a step of check_s3 in which list_files raised
ListingFails == main_pc = "check_s3" /\ lastCycle'.outcome = "list_failed"

\* C19: a poll cycle whose listing raises puts no message and leaves the mark
\* (and the id counter) as they were, and no step between that cycle and the
\* next changes the mark, so the next cycle tests against the same mark.
C19_FailedListingKeepsMark ==
    [][/\ ListingFails =>
             /\ task_queue' = task_queue
             /\ next_id' = next_id
             /\ max_s3_time' = max_s3_time
       /\ (main_pc # "check_s3") => max_s3_time' = max_s3_time
       /\ (main_pc = "check_s3" /\ main_pc' # "check_s3") =>
             lastCycle'.mark0 = max_s3_time]_vars

\* a cycle whose listing raised while the mark was already raised and a new
\* non-empty object was waiting in pending: the mark is the pre-cycle one
C19_Witness ==
    /\ lastCycle.outcome = "list_failed"
    /\ lastCycle.mark0 > MinTime
    /\ max_s3_time = lastCycle.mark0
    /\ \E k \in Keys : /\ pending[k].present
                       /\ pending[k].Size > 0
                       /\ pending[k].LastModified > max_s3_time

\* C21: every message put on the task queue gets an id larger than the
\* counter held before, so larger than the id of every message created
\* earlier (those still on the queue and those already claimed); the ids on
\* the task queue are strictly increasing in the order of the puts, so no two
\* messages on the queue share an id.
C21_IdsUniqueIncreasing ==
    [][LET new == Gained(task_queue, task_queue')
       IN /\ \A j \in 1..Len(new) :
                /\ new[j].id > next_id
                /\ new[j].id <= next_id'
                /\ \A c \in claimed : new[j].id > c
                /\ \A i \in 1..Len(task_queue) : new[j].id > task_queue[i].id
          /\ \A i, j \in 1..Len(task_queue') :
                i < j => task_queue'[i].id < task_queue'[j].id]_vars

\* a cycle put a message while a message of an earlier cycle was still on
\* the queue: the queue holds the ids 1 and 2, in that order
C21_Witness ==
    /\ lastCycle.outcome = "completed"
    /\ Len(lastCycle.put) = 1
    /\ Len(task_queue) = 2
    /\ task_queue[1].id = 1
    /\ task_queue[2] = lastCycle.put[1]
    /\ task_queue[2].id = 2

\* the positions of run() at which the worker holds a Task instance
TaskPcs == {"do", "cleanup", "cleanup_delete", "cleanup_rest"}

\* the ids of the ImportTask messages for key k that are on a task queue or
\* held by a worker
QueuedFor(queue, k) ==
    {queue[i].id : i \in {j \in 1..Len(queue) :
                            /\ queue[j].type = "ImportTask"
                            /\ queue[j].args.file_path = k}}
HeldFor(pool, k) ==
    {pool[w].msg.id : w \in {v \in Workers :
                               /\ pool[v].msg.type = "ImportTask"
                               /\ pool[v].msg.args.file_path = k}}

\* C25: a completed poll cycle that finds a non-empty object newer than the
\* mark puts a message for its key also when an earlier message for that key
\* is still on the task queue or held by a worker: afterwards two messages
\* with different ids exist for the one key; and two workers can hold an
\* ImportTask for the same key at the same time (the witness).
C25_ModifiedObjectEnqueuedAgain ==
    [][(main_pc = "check_s3" /\ lastCycle'.outcome = "completed") =>
          \A k \in Keys :
             (/\ pending[k].present
              /\ pending[k].Size > 0
              /\ pending[k].LastModified > max_s3_time
              /\ QueuedFor(task_queue, k) \cup HeldFor(workers, k) # {}) =>
                /\ PutCount(lastCycle', k) = 1
                /\ Cardinality(QueuedFor(task_queue', k) \cup HeldFor(workers', k)) >= 2]_vars

\* two workers hold an ImportTask each, with different ids, for the same key
C25_Witness ==
    \E w, v \in Workers, k \in Keys :
       /\ w # v
       /\ HeldFor(workers, k) = {workers[w].msg.id, workers[v].msg.id}
       /\ workers[w].msg.id # workers[v].msg.id
       /\ workers[w].pc \in TaskPcs /\ workers[v].pc \in TaskPcs

\* a non-empty object is in pending at key k with a LastModified that is not
\* above the mark, no cycle has enqueued it, and no message for its key is
\* on the task queue or held by a worker
StaleArrival(k) ==
    /\ pending[k].present
    /\ pending[k].Size > 0
    /\ pending[k].LastModified <= max_s3_time
    /\ k \notin seen
    /\ QueuedFor(task_queue, k) \cup HeldFor(workers, k) = {}

C30_AbortedCycleReenqueues ==
    [][/\ (main_pc = "check_s3" /\ lastCycle'.outcome = "loop_failed") =>
             /\ lastCycle'.put # <<>>
             /\ task_queue' = task_queue \o lastCycle'.put
             /\ max_s3_time' = max_s3_time
       /\ (main_pc = "check_s3" /\ lastCycle'.outcome = "completed") =>
             \A k \in unmarked :
                /\ pending[k].present
                /\ PutCount(lastCycle', k) = 1]_vars

\* after a single upload, a completed cycle has put a message for a key that
\* already had one, from a cycle that raised: the key has two messages
C30_Witness ==
    /\ uploads = 1
    /\ lastCycle.outcome = "completed"
    /\ \E k \in Keys :
          /\ PutCount(lastCycle, k) = 1
          /\ Cardinality(QueuedFor(task_queue, k) \cup HeldFor(workers, k)) = 2

(***************************************************************************)
(* Properties of Main.run                                                  *)
(***************************************************************************)
\* C20: whether check_s3 returns or raises, check_status is called next, in
\* the same iteration; whether check_status returns or raises, the loop goes
\* on to its test and, the stop flag not being set, to the next iteration;
\* neither function changes the stop flag.
C20_LoopSurvivesFailure ==
    [][/\ (main_pc = "check_s3" /\ main_pc' # "check_s3") =>
             (main_pc' = "check_status" /\ stop' = stop)
       /\ (main_pc = "check_status" /\ main_pc' # "check_status") =>
             /\ stop' = stop
             /\ main_pc' = IF stop THEN "join" ELSE "check_s3"
       /\ (lastCycle'.outcome \in {"list_failed", "status_failed"}) =>
             (stop' = stop /\ main_pc' # "done" /\ listener')]_vars

\* check_status raised with the stop flag not set, and the loop is at
\* check_s3 of the next iteration
C20_Witness ==
    /\ lastCycle.outcome = "status_failed"
    /\ ~stop
    /\ main_pc = "check_s3"
    /\ status_queue # <<>>

\* C24: with the looped functions check_s3 and check_status, whatever the
\* uploads and the workers do, the stop flag of the main process is never
\* set: the main process is always inside its loop, it has joined no worker
\* and the listener runs.
C24_LoopNeverEnds ==
    /\ ~stop
    /\ main_pc \in {"check_s3", "check_status"}
    /\ joined = 0
    /\ listener

\* the loop is at check_s3 again after check_status received the status
\* report of a task, and the stop flag is not set
C24_Witness ==
    /\ main_pc = "check_s3"
    /\ ~stop
    /\ status_queue = <<>>
    /\ \E w \in Workers : workers[w].reports # <<>>

\* C27: a call of check_status changes nothing but the status queue: the
\* task queue, the id counter, the mark, the stop flag, the workers and the
\* bucket are as before; when it returns the status queue is empty, and when
\* its get() raises the status queue has lost messages at its front only.
C27_CheckStatusReadOnly ==
    [][(main_pc = "check_status" /\ main_pc' # "check_status") =>
          /\ task_queue' = task_queue
          /\ next_id' = next_id
          /\ max_s3_time' = max_s3_time
          /\ stop' = stop
          /\ workers' = workers
          /\ joined' = joined
          /\ pending' = pending /\ remote' = remote /\ local' = local
          /\ IF lastCycle'.outcome = "status_failed"
             THEN \E n \in 0..Len(status_queue) :
                     status_queue' = SubSeq(status_queue, n + 1, Len(status_queue))
             ELSE status_queue' = <<>>]_vars

\* check_status has emptied the status queue of the report of a task whose
\* worker is still in cleanup, and a message is waiting on the task queue
C27_Witness ==
    /\ main_pc = "check_s3"
    /\ lastCycle = NoCycle
    /\ status_queue = <<>>
    /\ task_queue # <<>>
    /\ \E w \in Workers : workers[w].pc = "cleanup" /\ workers[w].reports # <<>>

\* C17: the logging listener is stopped, and run() returns, only when the
\* stop flag is set and every worker of the pool has exited: no worker is
\* waiting for a message or holding a task.
C17_JoinBeforeListenerStop ==
    (main_pc = "done" \/ ~listener) =>
        /\ stop
        /\ joined = MaxWorkers
        /\ \A w \in Workers : workers[w].pc \in {"ended", "crashed"}

\* run() has returned after every worker ended on its KillSelfTask
C17_Witness ==
    /\ main_pc = "done"
    /\ ~listener
    /\ \A w \in Workers : workers[w].pc = "ended"

(***************************************************************************)
(* Properties of the logging                                               *)
(***************************************************************************)
\* the records the listener has taken off the log queue: those written to
\* the sink (once per record, at the first part) and the one being written
Handled ==
    LET first == SelectSeq(sink, LAMBDA piece : piece.part = Parts[1])
    IN [i \in 1..Len(first) |-> first[i].record]
       \o (IF log_pos[ListenerThread].left = Len(Parts)
           THEN <<log_pos[ListenerThread].record>> ELSE <<>>)

\* C23: every record a worker emits is put whole on the log queue and only
\* the listener thread writes to the sink: the sink is a sequence of whole
\* records (each part of a record directly after the part before it), in the
\* order they were put on the log queue, and the records handled followed by
\* those waiting on the queue are the records emitted, in order.
C23_RecordsWholeInReceiptOrder ==
    /\ \A i \in 1..Len(sink) :
          /\ sink[i].by = ListenerThread
          /\ sink[i].part = Parts[((i - 1) % Len(Parts)) + 1]
          /\ sink[i].record = log_sent[((i - 1) \div Len(Parts)) + 1]
    /\ \A w \in Workers : log_pos[w] = Idle
    /\ Handled \o log_queue = log_sent

\* the listener is between the two parts of a record of one worker while a
\* record of another worker, emitted meanwhile, waits on the log queue
C23_Witness ==
    /\ Len(sink) % Len(Parts) = 1
    /\ log_queue # <<>>
    /\ log_queue[1].process # sink[Len(sink)].record.process

(***************************************************************************)
(* Properties of the worker loop and of the task life cycle                *)
(***************************************************************************)
\* worker w ends the life of its ImportTask in this step: cleanup() returns
\* or an exception kills the process
ImportTaskEnds(w) ==
    /\ workers[w].msg.type = "ImportTask"
    /\ workers[w].pc \in TaskPcs
    /\ workers'[w].pc \in {"get", "ended", "crashed"}

\* the record of the task at its end (a worker that returns to the claim
\* forgets the task in the same step)
FinalRecord(w) == IF workers'[w].pc = "crashed" THEN workers'[w] ELSE workers[w]

\* C2: for every ImportTask a worker constructs, cleanup is called exactly
\* once, whether or not do() raised, and that cleanup issues exactly one move
\* of the pending object, to accepted or to rejected.
C2_OneCleanupOneMove ==
    [][\A w \in Workers :
          ImportTaskEnds(w) =>
             /\ FinalRecord(w).cleanups = 1
             /\ Len(FinalRecord(w).moves) = 1
             /\ FinalRecord(w).moves[1] \in {"accepted", "rejected"}]_vars

\* C3: an ImportTask whose key fails the validation of _parse ends with the
\* status report 'failure' and a move to the rejected location, and never
\* with 'success' or a move to accepted.
C3_InvalidKeyRejected ==
    [][\A w \in Workers :
          (ImportTaskEnds(w) /\ ~parse_ok(KeyOf(w))) =>
             /\ FinalRecord(w).reports = <<"failure">>
             /\ FinalRecord(w).moves = <<"rejected">>]_vars

\* C15: do() of an ImportTask makes its calls in the order parse, download,
\* preprocess, upload, import, postprocess: the stages started are an initial
\* part of that order; if none raised all six ran and the status is success;
\* if one raised it is the last one started, the status is failure and the
\* task went to cleanup.
C15_StagesInOrder ==
    \A w \in Workers :
       (workers[w].msg.type = "ImportTask" /\ workers[w].pc \in TaskPcs \cup {"crashed"}
        /\ workers[w].pc # "do") =>
          LET r == workers[w]
              n == Len(r.stages)
          IN /\ n >= 1
             /\ n <= Len(StageOrder)
             /\ r.stages = SubSeq(StageOrder, 1, n)
             /\ r.raised = "none" => (n = Len(StageOrder) /\ r.status = "success")
             /\ r.raised # "none" => (r.stages[n] = r.raised /\ r.status = "failure")
             /\ r.pc = "crashed" => r.cleanups = 1

\* a task whose third stage raised: three stages started, status failure, in
\* cleanup
C15_Witness ==
    \E w \in Workers :
       /\ workers[w].pc = "cleanup"
       /\ workers[w].stages = <<"parse", "download", "preprocess">>
       /\ workers[w].raised = "preprocess"
       /\ workers[w].status = "failure"

\* worker w takes a message off the task queue in this step
Claims(w) == workers[w].pc = "get" /\ workers'[w].pc # "get"

\* C18: the message a worker claims has not been claimed before, is held by
\* no other worker and is no longer on the task queue after the claim: every
\* message is claimed, and so run, at most once.
C18_ClaimedAtMostOnce ==
    [][\A w \in Workers :
          Claims(w) =>
             LET id == workers'[w].msg.id
             IN /\ id \notin claimed
                /\ \A v \in Workers \ {w} : workers[v].msg.id # id
                /\ \A i \in 1..Len(task_queue') : task_queue'[i].id # id]_vars

\* two workers hold two different messages at the same time
C18_Witness ==
    \E w, v \in Workers :
       /\ workers[w].pc = "do" /\ workers[v].pc = "do"
       /\ workers[w].msg.id # workers[v].msg.id
       /\ claimed = {workers[w].msg.id, workers[v].msg.id}

\* the ids of the messages of a queue, in the order of the queue
IdsOf(queue) == [i \in 1..Len(queue) |-> queue[i].task_message.id]

\* C22: a put adds its message at the end of the task queue and a claim takes
\* the message at its front, whichever worker claims: the message claimed
\* is the one put first among those on the queue, and every message left on
\* the queue was put after every message claimed so far.
C22_ClaimedInInsertionOrder ==
    [][/\ \A w \in Workers :
             Claims(w) =>
                /\ workers'[w].msg = task_queue[1]
                /\ task_queue' = Tail(task_queue)
       /\ (\A w \in Workers : ~Claims(w)) =>
             SubSeq(task_queue', 1, Len(task_queue)) = task_queue
       /\ \A c \in claimed' :
             \A i \in 1..Len(task_queue') : c < task_queue'[i].id]_vars

\* two messages were claimed in the order of their puts and the status
\* report of the second is on the status queue before that of the first
C22_Witness ==
    /\ claimed = {1, 2}
    /\ IdsOf(status_queue) = <<2, 1>>

\* the positions of the status reports for message id on a status queue
ReportsOn(queue, id) ==
    {i \in 1..Len(queue) : queue[i].task_message.id = id}

\* C26: a worker that is in, or through, the cleanup of its task has put
\* exactly one status report for it before, with the value of its branch
\* (success after do() returned, failure after it raised); and the step that
\* puts the report is the one that leads to cleanup, so the report is on the
\* status queue while cleanup has moved nothing yet.
C26_ReportBeforeCleanup ==
    [][\A w \in Workers :
          /\ (workers'[w].pc \in TaskPcs \ {"do"} \/ workers'[w].cleanups > 0) =>
                /\ workers'[w].reports = <<workers'[w].status>>
                /\ workers'[w].status =
                      (IF workers'[w].raised = "none" THEN "success" ELSE "failure")
          /\ (workers[w].pc = "do" /\ workers'[w].pc = "cleanup") =>
                /\ workers'[w].cleanups = 0
                /\ workers'[w].moves = <<>>
                /\ Len(status_queue') = Len(status_queue) + 1
                /\ status_queue'[Len(status_queue')] =
                      StatusMessage(workers'[w].status, workers[w].msg)
          /\ (workers'[w].cleanups > workers[w].cleanups) =>
                workers[w].reports = <<workers[w].status>>]_vars

\* check_status has received the report 'success' of a task (it is no longer
\* on the status queue) while the worker has not started cleanup: the object
\* is in pending and not in accepted
C26_Witness ==
    \E w \in Workers :
       /\ workers[w].pc = "cleanup"
       /\ workers[w].reports = <<"success">>
       /\ ReportsOn(status_queue, workers[w].msg.id) = {}
       /\ main_pc = "check_s3"
       /\ pending[KeyOf(w)].present
       /\ accepted_path(KeyOf(w)) \notin remote

\* C28: move_file copies, then deletes.  A step that takes an object out of
\* pending is the delete of a worker whose copy succeeded, and the object is
\* at the destination of that move then and from then on (nothing removes an
\* object from accepted or rejected); between the copy and the delete the
\* object is in pending and at the destination; a copy that raises ends the
\* move with pending as it was.
C28_CopyThenDelete ==
    [][/\ \A k \in Keys :
             (pending[k].present /\ ~pending'[k].present) =>
                \E w \in Workers :
                   /\ workers[w].pc = "cleanup_delete"
                   /\ KeyOf(w) = k
                   /\ MoveTarget(workers[w].status, k) \in remote
                   /\ MoveTarget(workers[w].status, k) \in remote'
       /\ \A p \in remote : p.folder \in {"accepted", "rejected"} => p \in remote'
       /\ \A w \in Workers :
             /\ (workers[w].pc = "cleanup" /\ workers'[w].pc = "cleanup_delete") =>
                   /\ pending'[KeyOf(w)].present
                   /\ MoveTarget(workers[w].status, KeyOf(w)) \in remote'
             /\ (workers[w].pc = "cleanup" /\ workers'[w].pc = "crashed") =>
                   /\ pending' = pending
                   /\ remote' = remote]_vars

\* a move is between its copy and its delete: the object is in pending and
\* at accepted
C28_Witness ==
    \E w \in Workers :
       /\ workers[w].pc = "cleanup_delete"
       /\ pending[KeyOf(w)].present
       /\ accepted_path(KeyOf(w)) \in remote
       /\ workers[w].moves = <<"accepted">>

\* C16: a worker's stop flag changes only in that worker's own do() of a
\* KillSelfTask, which sets it and touches no other worker; a worker whose
\* flag is set leaves the loop when the cleanup of its task returns and
\* claims nothing more; a worker ends only that way.
C16_KillSelfStopsOnlyItself ==
    [][\A w \in Workers :
          /\ (workers'[w].stop # workers[w].stop) =>
                /\ workers[w].pc = "do" /\ workers[w].msg.type = "KillSelfTask"
                /\ workers'[w].stop
                /\ \A v \in Workers \ {w} : workers'[v] = workers[v]
          /\ (workers[w].pc = "do" /\ workers[w].msg.type = "KillSelfTask"
               /\ workers'[w].pc # "do") => workers'[w].stop
          /\ (workers[w].stop /\ workers[w].pc = "cleanup" /\ workers'[w].pc # "cleanup")
                => workers'[w].pc = "ended"
          /\ Claims(w) => ~workers[w].stop
          /\ (workers[w].pc = "ended") => workers'[w] = workers[w]
          /\ (workers'[w].pc = "ended" /\ workers[w].pc # "ended") =>
                (workers[w].msg.type = "KillSelfTask" /\ workers[w].pc = "cleanup")]_vars

\* one worker has ended on a KillSelfTask and another, its stop flag not
\* set, is running the message it claimed
C16_Witness ==
    \E w, v \in Workers :
       /\ workers[w].pc = "ended" /\ workers[w].stop
       /\ workers[v].pc = "do" /\ ~workers[v].stop
       /\ Cardinality(claimed) = 2

\* C13: an ImportTask whose stages all returned ends with one status report,
\* of value success, with the worker alive, the object copied to
\* accepted/<client>/<file> by the one move of its cleanup (none to rejected)
\* and deleted from pending, and the processed/<client>/<file> object
\* deleted.  (Tasks whose cleanup met an S3 error that the state of the
\* bucket does not explain are left aside.)
C13_SuccessAccepted ==
    [][\A w \in Workers :
          (/\ ImportTaskEnds(w)
           /\ FinalRecord(w).stages = StageOrder
           /\ FinalRecord(w).raised = "none"
           /\ FinalRecord(w).error # "ClientError") =>
             /\ FinalRecord(w).reports = <<"success">>
             /\ FinalRecord(w).moves = <<"accepted">>
             /\ workers'[w].pc # "crashed"
             /\ accepted_path(KeyOf(w)) \in remote'
             /\ upload_path(KeyOf(w)) \notin remote']_vars

\* C14: an ImportTask whose _parse returned and whose later stage raised ends
\* with one status report, of value failure, with the worker alive, the
\* object copied to rejected/<client>/<file> by the one move of its cleanup
\* (none to accepted), and the local download and processed files removed.
\* (Tasks whose cleanup met an S3 error that the state of the bucket does not
\* explain are left aside.)
C14_FailureRejected ==
    [][\A w \in Workers :
          (/\ ImportTaskEnds(w)
           /\ FinalRecord(w).parsed
           /\ FinalRecord(w).raised # "none"
           /\ FinalRecord(w).error # "ClientError") =>
             /\ FinalRecord(w).reports = <<"failure">>
             /\ FinalRecord(w).moves = <<"rejected">>
             /\ workers'[w].pc # "crashed"
             /\ rejected_path(KeyOf(w)) \in remote'
             /\ download_path(KeyOf(w)) \notin local'
             /\ processed_path(KeyOf(w)) \notin local']_vars

\* worker w is done with the message it claimed in this step: cleanup()
\* returns, or an exception kills the process (possibly already in to_task)
MessageEnds(w) ==
    /\ workers'[w].pc # workers[w].pc
    /\ workers'[w].pc \in {"get", "ended", "crashed"}

\* C12: no status report on the status queue has the value in_progress, and
\* for every claimed message exactly one report has been put by the time the
\* worker is done with it: success if do() returned, failure if it raised.
C12_OneReportPerClaim ==
    [][/\ \A i \in 1..Len(status_queue') : status_queue'[i].value # "in_progress"
       /\ \A w \in Workers :
             MessageEnds(w) =>
                FinalRecord(w).reports =
                   <<IF FinalRecord(w).raised = "none" THEN "success" ELSE "failure">>]_vars

\* C4: a worker that has claimed a message whose type names no Task class is
\* alive, and a status report 'failure' for the message has been published.
C4_UnknownTypeFailsTask ==
    \A w \in Workers :
       (workers[w].msg.id # 0 /\ to_task_raises(workers[w].msg)) =>
          /\ workers[w].pc # "crashed"
          /\ workers[w].reports = <<"failure">>

\* C5: a worker that has left its claim loop has executed KillSelfTask (its
\* stop flag is set) and left after that task: no worker is dead of an
\* exception.
C5_OnlyKillSelfStops ==
    \A w \in Workers :
       workers[w].pc \in {"ended", "crashed"} =>
          workers[w].stop /\ workers[w].pc = "ended"

\* C6: a worker whose task's do() raised has published the status report
\* 'failure' and is alive: it runs cleanup and returns to the claim.  (A
\* worker killed by an S3 error inside cleanup is left aside here: the
\* property is about what follows from the exception of do() alone.)
C6_FailedTaskKeepsWorker ==
    \A w \in Workers :
       workers[w].status = "failure" =>
          /\ workers[w].reports = <<"failure">>
          /\ \/ workers[w].pc \in {"cleanup", "cleanup_delete", "cleanup_rest"}
             \/ workers[w].error = "ClientError"

\* C7: every message on the task queue is eventually claimed, and a status
\* report for it eventually is on the status queue.
C7_EveryTaskReported ==
    \A id \in TaskIds :
       (\E i \in 1..Len(task_queue) : task_queue[i].id = id)
          ~> (\E i \in 1..Len(status_queue) : status_queue[i].task_message.id = id)

====
